---- MODULE Spec2Model ----
(***************************************************************************)
(* vtkShaderProgram (Rendering/OpenGL2): the attach / link / bind state    *)
(* machine of one shader program object over one OpenGL context.           *)
(*                                                                         *)
(* Every method is an operator on a record s that holds the object's       *)
(* fields, the part of the OpenGL state the methods act on, and the        *)
(* outcome of the call in progress (ret, calls, wrote).  What the driver   *)
(* answers (the name glCreateProgram returns, GL_LINK_STATUS, a location)  *)
(* is a parameter of the operator, chosen by the action that calls it.     *)
(***************************************************************************)
EXTENDS Integers, Sequences, FiniteSets

VARIABLES
  Handle,                \* int Handle: the native program, 0 = none
  VertexShaderHandle,    \* int VertexShaderHandle
  FragmentShaderHandle,  \* int FragmentShaderHandle
  Linked,                \* bool Linked
  Bound,                 \* bool Bound
  Compiled,              \* bool Compiled
  Error,                 \* std::string Error
  Attributes,            \* std::map<std::string, int> Attributes, as a set of pairs
  VertexShader,          \* the owned vertex vtkShader: [type, handle]
  FragmentShader,        \* the owned fragment vtkShader: [type, handle]
  glAttached,            \* OpenGL: the shader names attached to program Handle
  glCurrentProgram,      \* OpenGL: the program in use in the context, 0 = none
  LastShaderBound,       \* the shader cache's last bound program
  op,                    \* the last method called
  arg,                   \* its argument
  ret,                   \* what it returned
  calls,                 \* the calls it made, in order
  wrote,                 \* whether it assigned Error
  rt,                    \* how far the call history follows the round trip
  reuse,                 \* how far it follows compile, tear down, compile, bind
  other                  \* a second vtkShaderProgram on the same context

vars == <<Handle, VertexShaderHandle, FragmentShaderHandle, Linked, Bound,
          Compiled, Error, Attributes, VertexShader, FragmentShader,
          glAttached, glCurrentProgram, LastShaderBound, op, arg, ret, calls,
          wrote, rt, reuse, other>>

(***************************************************************************)
(* Bounds.                                                                 *)
(***************************************************************************)
\* native vertex shader names: 1..MaxVertexHandle
MaxVertexHandle == 2
\* native fragment shader names: the MaxFragmentHandle names after those
MaxFragmentHandle == 1
\* locations the driver can answer: 0..MaxLocation
MaxLocation == 1

(***************************************************************************)
(* vtkShader, as this class consumes it: a type tag and a native handle.   *)
(* A native shader object has the type it was created with; the names of   *)
(* each type are drawn from a pool of their own.                           *)
(***************************************************************************)
VertexHandles == 1..MaxVertexHandle

FragmentHandles == (MaxVertexHandle + 1)..(MaxVertexHandle + MaxFragmentHandle)

GeometryHandles == {MaxVertexHandle + MaxFragmentHandle + 1}

ShaderHandles == VertexHandles \cup FragmentHandles \cup GeometryHandles

HandleType(h) ==
  IF h \in VertexHandles THEN "Vertex"
  ELSE IF h \in FragmentHandles THEN "Fragment"
  ELSE "Geometry"

\* the shaders a caller can pass: compiled ones, uncompiled ones (handle 0,
\* which is tested before the type), and a compiled one of type Unknown
Shaders ==
  {[type |-> HandleType(h), handle |-> h] : h \in ShaderHandles}
    \cup {[type |-> t, handle |-> 0] : t \in {"Vertex", "Unknown"}}
    \cup {[type |-> "Unknown", handle |-> h] : h \in {1}}

Names == {"", "vertexMC"}

Call(f, a, b) == [f |-> f, a |-> a, b |-> b]

Log(s, c) == [s EXCEPT !.calls = Append(@, c)]

SetError(s, msg) == [s EXCEPT !.Error = msg, !.wrote = TRUE]

Return(s, v) == [s EXCEPT !.ret = v]

\* a call of this object's own method f with argument a has returned s.ret
Returned(s, f, a) == Log(s, Call(f, a, IF s.ret THEN 1 ELSE 0))

(***************************************************************************)
(* OpenGL, as far as the class drives it.                                  *)
(***************************************************************************)
\* glDetachShader(program, shader): an error and no effect when program is 0
\* or shader is not attached to it
glDetachShader(s, program, shader) ==
  LET t == Log(s, Call("glDetachShader", program, shader))
  IN  IF program # 0 /\ program = s.Handle
      THEN [t EXCEPT !.glAttached = @ \ {shader}]
      ELSE t

glAttachShader(s, program, shader) ==
  LET t == Log(s, Call("glAttachShader", program, shader))
  IN  IF program # 0 /\ program = s.Handle
      THEN [t EXCEPT !.glAttached = @ \cup {shader}]
      ELSE t

\* glDeleteProgram(program): the program's shaders are detached with it
glDeleteProgram(s, program) ==
  [Log(s, Call("glDeleteProgram", program, 0)) EXCEPT !.glAttached = {}]

glUseProgram(s, program) ==
  [Log(s, Call("glUseProgram", program, 0)) EXCEPT !.glCurrentProgram = program]

(***************************************************************************)
(* bool vtkShaderProgram::AttachShader(const vtkShader *shader)            *)
(* created: the name glCreateProgram answers, 0 when it fails.             *)
(***************************************************************************)
\* the shader has no native handle
NotInitializedLax(shader) == shader.handle < 0

NotInitialized(shader) == shader.handle = 0

\* a shader of the same type is recorded: detach it first
KeepPrevious(s, recorded) == s

DetachPrevious(s, recorded) ==
  IF recorded # 0 THEN glDetachShader(s, s.Handle, recorded) ELSE s

\* the native attach, and the link is stale
AttachKeepsLinked(s, shader) ==
  Return(glAttachShader(s, s.Handle, shader.handle), TRUE)

Attach(s, shader) ==
  Return([glAttachShader(s, s.Handle, shader.handle) EXCEPT !.Linked = FALSE], TRUE)

AttachShader(s, shader, created) ==
  IF NotInitialized(shader)
  THEN Return(SetError(s, "Shader object was not initialized, cannot attach it."), FALSE)
  ELSE IF shader.type = "Unknown"
  THEN Return(SetError(s, "Shader object is of type Unknown and cannot be used."), FALSE)
  ELSE
    LET c == IF s.Handle = 0 THEN Log(s, Call("glCreateProgram", created, 0)) ELSE s
    IN
    IF s.Handle = 0 /\ created = 0
    THEN Return(SetError(c, "Could not create shader program."), FALSE)
    ELSE
      LET h == IF s.Handle = 0
               THEN [c EXCEPT !.Handle = created, !.Linked = FALSE]
               ELSE c
      IN
      IF shader.type = "Vertex"
      THEN Attach([DetachPrevious(h, h.VertexShaderHandle)
                     EXCEPT !.VertexShaderHandle = shader.handle], shader)
      ELSE IF shader.type = "Fragment"
      THEN Attach([DetachPrevious(h, h.FragmentShaderHandle)
                     EXCEPT !.FragmentShaderHandle = shader.handle], shader)
      ELSE
        Return(SetError(h, "Unknown shader type encountered - this should not happen."), FALSE)

(***************************************************************************)
(* bool vtkShaderProgram::DetachShader(const vtkShader *shader)            *)
(* With Handle = 0 the error is set and the method goes on to the switch.  *)
(***************************************************************************)
\* detaches without comparing the shader with the recorded handle
DetachShaderAnyway(s, shader) ==
  IF shader.handle = 0
  THEN Return(SetError(s, "Shader object was not initialized, cannot attach it."), FALSE)
  ELSE IF shader.type = "Unknown"
  THEN Return(SetError(s, "Shader object is of type Unknown and cannot be used."), FALSE)
  ELSE IF shader.type = "Vertex"
  THEN Return([glDetachShader(s, s.Handle, shader.handle)
                 EXCEPT !.VertexShaderHandle = 0, !.Linked = FALSE], TRUE)
  ELSE IF shader.type = "Fragment"
  THEN Return([glDetachShader(s, s.Handle, shader.handle)
                 EXCEPT !.FragmentShaderHandle = 0, !.Linked = FALSE], TRUE)
  ELSE Return(s, FALSE)

DetachShader(s, shader) ==
  IF shader.handle = 0
  THEN Return(SetError(s, "Shader object was not initialized, cannot attach it."), FALSE)
  ELSE IF shader.type = "Unknown"
  THEN Return(SetError(s, "Shader object is of type Unknown and cannot be used."), FALSE)
  ELSE
    LET e == IF s.Handle = 0
             THEN SetError(s, "This shader prorgram has not been initialized yet.")
             ELSE s
    IN
    IF shader.type = "Vertex"
    THEN
      IF e.VertexShaderHandle # shader.handle
      THEN Return(SetError(e, "The supplied shader was not attached to this program."), FALSE)
      ELSE Return([glDetachShader(e, e.Handle, shader.handle)
                     EXCEPT !.VertexShaderHandle = 0, !.Linked = FALSE], TRUE)
    ELSE IF shader.type = "Fragment"
    THEN
      IF e.FragmentShaderHandle # shader.handle
      THEN Return(SetError(e, "The supplied shader was not attached to this program."), FALSE)
      ELSE Return([glDetachShader(e, e.Handle, shader.handle)
                     EXCEPT !.FragmentShaderHandle = 0, !.Linked = FALSE], TRUE)
    ELSE Return(e, FALSE)

(***************************************************************************)
(* bool vtkShaderProgram::Link()                                           *)
(* status: GL_LINK_STATUS after glLinkProgram; length: what the            *)
(* GL_INFO_LOG_LENGTH query leaves in length (it starts at 0).             *)
(***************************************************************************)
LinkProgram(s, status, length) ==
  LET l == Log(Log(s, Call("glLinkProgram", s.Handle, 0)),
               Call("glGetProgramiv", s.Handle, status))
  IN
  IF status = 0
  THEN
    LET q == Log(l, Call("glGetShaderiv", l.Handle, length))
    IN  IF length > 1
        THEN Return(SetError(Log(q, Call("glGetShaderInfoLog", q.Handle, length)),
                             "logMessage"), FALSE)
        ELSE Return(q, FALSE)
  ELSE Return([l EXCEPT !.Linked = TRUE, !.Attributes = {}], TRUE)

LinkUnchecked(s, status, length) ==
  IF s.Linked THEN Return(s, TRUE) ELSE LinkProgram(s, status, length)

\* links again a program that is linked
LinkAgain(s, status, length) ==
  IF s.Handle = 0
  THEN Return(SetError(s, "Program has not been initialized, and/or does not have shaders."), FALSE)
  ELSE LinkProgram(s, status, length)

Link(s, status, length) ==
  IF s.Linked
  THEN Return(s, TRUE)
  ELSE IF s.Handle = 0
  THEN Return(SetError(s, "Program has not been initialized, and/or does not have shaders."), FALSE)
  ELSE LinkProgram(s, status, length)

(***************************************************************************)
(* bool vtkShaderProgram::Bind()                                           *)
(***************************************************************************)
BindRelinks(s, status, length) ==
  LET l == Link([s EXCEPT !.Linked = FALSE], status, length)
  IN  IF ~l.ret
      THEN Return(l, FALSE)
      ELSE Return([glUseProgram(l, l.Handle) EXCEPT !.Bound = TRUE], TRUE)

Bind(s, status, length) ==
  LET l == IF ~s.Linked THEN Link(s, status, length) ELSE s
  IN  IF ~s.Linked /\ ~l.ret
      THEN Return(l, FALSE)
      ELSE Return([glUseProgram(l, l.Handle) EXCEPT !.Bound = TRUE], TRUE)

(***************************************************************************)
(* void vtkShaderProgram::Release()                                        *)
(***************************************************************************)
ReleaseKeepsBound(s) == glUseProgram(s, 0)

Release(s) ==
  [glUseProgram(s, 0) EXCEPT !.Bound = FALSE]

(***************************************************************************)
(* vtkShader::Compile and vtkShader::Cleanup of an owned shader.           *)
(* out: what the compile comes to: a name of the shader's pool (success),  *)
(* 0 (failure, the old native shader was deleted first) or -1 (failure     *)
(* before anything was touched).                                           *)
(***************************************************************************)
CompileOutcomes(type) ==
  {-1, 0} \cup (IF type = "Vertex" THEN VertexHandles ELSE FragmentHandles)

Compile(shader, out) ==
  IF out = -1 THEN shader ELSE [shader EXCEPT !.handle = out]

Cleanup(shader) == [shader EXCEPT !.handle = 0]

(***************************************************************************)
(* int vtkShaderProgram::CompileShader()                                   *)
(***************************************************************************)
\* Link(), and only then Compiled
LinkAndFinishAnyway(s, status, length) ==
  Return([Returned(Link(s, status, length), "Link", 0) EXCEPT !.Compiled = TRUE], 1)

LinkAndFinish(s, status, length) ==
  LET l == Returned(Link(s, status, length), "Link", 0)
  IN  IF ~l.ret
      THEN Return(l, 0)
      ELSE Return([l EXCEPT !.Compiled = TRUE], 1)

\* AttachShader(vertex), AttachShader(fragment), Link()
AttachAndLink(s, created, status, length) ==
  LET a1 == Returned(AttachShader(s, s.VertexShader, created),
                     "AttachShader", s.VertexShader.handle)
  IN
  IF ~a1.ret
  THEN Return(a1, 0)
  ELSE
    LET a2 == Returned(AttachShader(a1, a1.FragmentShader, created),
                       "AttachShader", a1.FragmentShader.handle)
    IN  IF ~a2.ret
        THEN Return(a2, 0)
        ELSE LinkAndFinish(a2, status, length)

\* the fragment shader's compile, and the rest
CompileFragment(s, fout, created, status, length) ==
  LET f == Log([s EXCEPT !.FragmentShader = Compile(@, fout)],
               Call("FragmentShader.Compile", fout, 0))
  IN  IF fout <= 0
      THEN Return(f, 0)
      ELSE AttachAndLink(f, created, status, length)

CompileShaderGoesOn(s, vout, fout, created, status, length) ==
  CompileFragment(Log([s EXCEPT !.VertexShader = Compile(@, vout)],
                      Call("VertexShader.Compile", vout, 0)),
                  fout, created, status, length)

CompileShader(s, vout, fout, created, status, length) ==
  LET v == Log([s EXCEPT !.VertexShader = Compile(@, vout)],
               Call("VertexShader.Compile", vout, 0))
  IN  IF vout <= 0
      THEN Return(v, 0)
      ELSE CompileFragment(v, fout, created, status, length)

(***************************************************************************)
(* void vtkShaderProgram::ReleaseGraphicsResources(vtkWindow *win)         *)
(***************************************************************************)
DeleteProgramUnguarded(s) ==
  [glDeleteProgram(s, s.Handle) EXCEPT !.Handle = 0, !.Linked = FALSE]

\* the program is deleted and Handle still names it
DeleteProgramKeepsHandle(s) ==
  IF s.Handle # 0
  THEN [glDeleteProgram(s, s.Handle) EXCEPT !.Linked = FALSE]
  ELSE s

\* the handle is zeroed and the program still counts as linked
DeleteProgramKeepsLinked(s) ==
  IF s.Handle # 0
  THEN [glDeleteProgram(s, s.Handle) EXCEPT !.Handle = 0]
  ELSE s

DeleteProgram(s) ==
  IF s.Handle # 0
  THEN [glDeleteProgram(s, s.Handle) EXCEPT !.Handle = 0, !.Linked = FALSE]
  ELSE s

\* the shader cache is left pointing at this program
KeepLastShaderBound(s) == s

\* if (renWin->GetShaderCache()->GetLastShaderBound() == this)
ClearLastShaderBound(s) ==
  IF s.LastShaderBound = "this"
  THEN Log([s EXCEPT !.LastShaderBound = "NULL"], Call("ClearLastShaderBound", 0, 0))
  ELSE s

ReleaseGraphicsResources(s) ==
  LET r == Release(s)
      d == IF r.Compiled
           THEN
             LET d1 == DetachShader(r, r.VertexShader)
                 d2 == DetachShader(d1, d1.FragmentShader)
                 c1 == Log([d2 EXCEPT !.VertexShader = Cleanup(@)],
                           Call("VertexShader.Cleanup", d2.VertexShader.handle, 0))
                 c2 == Log([c1 EXCEPT !.FragmentShader = Cleanup(@)],
                           Call("FragmentShader.Cleanup", c1.FragmentShader.handle, 0))
             IN  [c2 EXCEPT !.Compiled = FALSE]
           ELSE r
  IN  Return(DeleteProgram(ClearLastShaderBound(d)), "void")

(***************************************************************************)
(* int vtkShaderProgram::FindAttributeArray(const std::string &name)       *)
(* int vtkShaderProgram::FindUniform(const std::string &name)              *)
(* location: what the driver answers for the name, -1 when it has none.    *)
(***************************************************************************)
FindAttributeArray(s, name, location) ==
  IF name = "" \/ ~s.Linked
  THEN Return(s, -1)
  ELSE
    LET q == Log(s, Call("glGetAttribLocation", s.Handle, location))
    IN  IF location = -1
        THEN Return(SetError(q, "Specified attribute not found in current shader program: "), -1)
        ELSE Return(q, location)

FindUniformUnlinked(s, name, location) ==
  IF name = ""
  THEN Return(s, -1)
  ELSE
    LET q == Log(s, Call("glGetUniformLocation", s.Handle, location))
    IN  IF location = -1
        THEN Return(SetError(q, "Uniform not found in current shader program."), -1)
        ELSE Return(q, location)

FindUniform(s, name, location) ==
  IF name = "" \/ ~s.Linked
  THEN Return(s, -1)
  ELSE
    LET q == Log(s, Call("glGetUniformLocation", s.Handle, location))
    IN  IF location = -1
        THEN Return(SetError(q, "Uniform not found in current shader program."), -1)
        ELSE Return(q, location)

(***************************************************************************)
(* The attribute operations: EnableAttributeArray, DisableAttributeArray,  *)
(* UseAttributeArray.  The payload of the upload (offset, stride, element  *)
(* type, tuple size, normalize) does not touch the object and is left out. *)
(***************************************************************************)
EnableAttributeArray(s, name, location) ==
  LET f == FindAttributeArray(s, name, location)
  IN  IF f.ret = -1
      THEN Return(SetError(f, "Could not enable attribute. No such attribute."), FALSE)
      ELSE Return(Log(f, Call("glEnableVertexAttribArray", f.ret, 0)), TRUE)

DisableAttributeArray(s, name, location) ==
  LET f == FindAttributeArray(s, name, location)
  IN  IF f.ret = -1
      THEN Return(SetError(f, "Could not disable attribute. No such attribute."), FALSE)
      ELSE Return(Log(f, Call("glDisableVertexAttribArray", f.ret, 0)), TRUE)

UseAttributeArray(s, name, location) ==
  LET f == FindAttributeArray(s, name, location)
  IN  IF f.ret = -1
      THEN Return(SetError(f, "Could not use attribute. No such attribute."), FALSE)
      ELSE Return(Log(f, Call("glVertexAttribPointer", f.ret, 0)), TRUE)

(***************************************************************************)
(* SetAttributeArray<T> and SetAttributeArrayInternal.                     *)
(* empty: array.empty(); type: vtkTypeTraits<T::value_type>::VTKTypeID().  *)
(***************************************************************************)
\* -1: no VTK type for the element type; 10: VTK_FLOAT
TypeIDs == {-1, 10}

SetAttributeArrayInternal(s, name, type, location) ==
  IF type = -1
  THEN Return(SetError(s, "Unrecognized data type for attribute."), FALSE)
  ELSE
    LET f == FindAttributeArray(s, name, location)
    IN  IF f.ret = -1
        THEN Return(SetError(f, "Could not set attribute. No such attribute."), FALSE)
        ELSE Return(Log(f, Call("glVertexAttribPointer", f.ret, 0)), TRUE)

SetAttributeArrayUnchecked(s, name, empty, type, location) ==
  SetAttributeArrayInternal(s, name, type, location)

SetAttributeArray(s, name, empty, type, location) ==
  IF empty
  THEN Return(SetError(s, "Refusing to upload empty array for attribute."), FALSE)
  ELSE SetAttributeArrayInternal(s, name, type, location)

(***************************************************************************)
(* The uniform setters.  Each resolves the name with FindUniform and       *)
(* uploads with the native call of its own; they differ in nothing else.   *)
(***************************************************************************)
UniformSetters ==
  {"SetUniformi", "SetUniformf", "SetUniformMatrix4x4", "SetUniformMatrix3x3",
   "SetUniform1fv", "SetUniform1iv", "SetUniform3fv", "SetUniform2f",
   "SetUniform3f", "SetUniform4f", "SetUniform2i", "SetUniform3uc",
   "SetUniform4uc"}

UniformUpload(setter) ==
  CASE setter = "SetUniformi" -> "glUniform1i"
    [] setter = "SetUniformf" -> "glUniform1f"
    [] setter = "SetUniformMatrix4x4" -> "glUniformMatrix4fv"
    [] setter = "SetUniformMatrix3x3" -> "glUniformMatrix3fv"
    [] setter = "SetUniform1fv" -> "glUniform1fv"
    [] setter = "SetUniform1iv" -> "glUniform1iv"
    [] setter = "SetUniform3fv" -> "glUniform3fv"
    [] setter = "SetUniform2f" -> "glUniform2fv"
    [] setter = "SetUniform3f" -> "glUniform3fv"
    [] setter = "SetUniform4f" -> "glUniform4fv"
    [] setter = "SetUniform2i" -> "glUniform2iv"
    [] setter = "SetUniform3uc" -> "glUniform3fv"
    [] setter = "SetUniform4uc" -> "glUniform4fv"

SetUniformUnchecked(s, setter, name, location) ==
  LET f == FindUniform(s, name, location)
  IN  Return(Log(f, Call(UniformUpload(setter), f.ret, 0)), TRUE)

SetUniform(s, setter, name, location) ==
  LET f == FindUniform(s, name, location)
  IN  IF f.ret = -1
      THEN Return(SetError(f, "Could not set uniform. No such uniform."), FALSE)
      ELSE Return(Log(f, Call(UniformUpload(setter), f.ret, 0)), TRUE)

(***************************************************************************)
(* The state machine.                                                      *)
(***************************************************************************)
\* the object and the context as a call finds them
Cur ==
  [Handle |-> Handle, VertexShaderHandle |-> VertexShaderHandle,
   FragmentShaderHandle |-> FragmentShaderHandle, Linked |-> Linked,
   Bound |-> Bound, Compiled |-> Compiled, Error |-> Error,
   Attributes |-> Attributes, VertexShader |-> VertexShader,
   FragmentShader |-> FragmentShader, glAttached |-> glAttached,
   glCurrentProgram |-> glCurrentProgram,
   LastShaderBound |-> LastShaderBound,
   ret |-> "none", calls |-> <<>>, wrote |-> FALSE]

\* the round trip of the lifecycle: attach vertex, attach fragment, link,
\* bind, release, bind, from a new program; any other call leaves it
RoundTrip(at, name, a, r) ==
  CASE at = "new" /\ name = "AttachShader" /\ a.type = "Vertex" /\ r = TRUE -> "vertex"
    [] at = "vertex" /\ name = "AttachShader" /\ a.type = "Fragment" /\ r = TRUE -> "fragment"
    [] at = "fragment" /\ name = "Link" /\ r = TRUE -> "linked"
    [] at = "linked" /\ name = "Bind" -> "bound"
    [] at = "bound" /\ name = "Release" -> "released"
    [] at = "released" /\ name = "Bind" -> "rebound"
    [] OTHER -> "off"

\* no compile, program allocation or link of the calls cs has failed
AllSucceed(cs) ==
  \A i \in DOMAIN cs :
    /\ cs[i].f \in {"VertexShader.Compile", "FragmentShader.Compile"} => cs[i].a > 0
    /\ cs[i].f = "glCreateProgram" => cs[i].a # 0
    /\ cs[i].f = "glGetProgramiv" => cs[i].b = 1

\* reuse after teardown: a CompileShader that succeeded, directly followed by
\* ReleaseGraphicsResources, by a CompileShader in which nothing the driver
\* or the shaders answer fails, and by Bind
Reuse(at, name, r) ==
  IF name = "CompileShader"
  THEN IF at = "released" /\ AllSucceed(r.calls) THEN "recompiled"
       ELSE IF r.ret = 1 THEN "compiled"
       ELSE "idle"
  ELSE IF name = "ReleaseGraphicsResources" /\ at = "compiled" THEN "released"
  ELSE IF name = "Bind" /\ at = "recompiled" THEN "rebound"
  ELSE "idle"

\* a call of method name with argument a came to r
Commit(r, name, a) ==
  /\ Handle' = r.Handle
  /\ VertexShaderHandle' = r.VertexShaderHandle
  /\ FragmentShaderHandle' = r.FragmentShaderHandle
  /\ Linked' = r.Linked
  /\ Bound' = r.Bound
  /\ Compiled' = r.Compiled
  /\ Error' = r.Error
  /\ Attributes' = r.Attributes
  /\ VertexShader' = r.VertexShader
  /\ FragmentShader' = r.FragmentShader
  /\ glAttached' = r.glAttached
  /\ glCurrentProgram' = r.glCurrentProgram
  /\ LastShaderBound' = r.LastShaderBound
  /\ other' = other
  /\ op' = name
  /\ arg' = a
  /\ ret' = r.ret
  /\ calls' = r.calls
  /\ wrote' = r.wrote
  /\ rt' = RoundTrip(rt, name, a, r.ret)
  /\ reuse' = Reuse(reuse, name, r)

\* vtkShaderProgram::vtkShaderProgram(): a program as constructed, with the
\* context's part left blank
NewProgram ==
  [Handle |-> 0, VertexShaderHandle |-> 0, FragmentShaderHandle |-> 0,
   Linked |-> FALSE, Bound |-> FALSE, Compiled |-> FALSE, Error |-> "",
   Attributes |-> {}, VertexShader |-> [type |-> "Vertex", handle |-> 0],
   FragmentShader |-> [type |-> "Fragment", handle |-> 0], glAttached |-> {},
   glCurrentProgram |-> 0, LastShaderBound |-> "NULL",
   ret |-> "none", calls |-> <<>>, wrote |-> FALSE]

\* vtkShaderProgram::vtkShaderProgram()
Init ==
  /\ Handle = 0
  /\ VertexShaderHandle = 0
  /\ FragmentShaderHandle = 0
  /\ Linked = FALSE
  /\ Bound = FALSE
  /\ Compiled = FALSE
  /\ Error = ""
  /\ Attributes = {}
  /\ VertexShader = [type |-> "Vertex", handle |-> 0]
  /\ FragmentShader = [type |-> "Fragment", handle |-> 0]
  /\ glAttached = {}
  /\ glCurrentProgram = 0
  /\ LastShaderBound = "NULL"
  /\ other = NewProgram
  /\ op = "New"
  /\ arg = "none"
  /\ ret = "none"
  /\ calls = <<>>
  /\ wrote = FALSE
  /\ rt = "new"
  /\ reuse = "idle"

\* what glCreateProgram answers: 0 when it fails, else the name of the new
\* program.  The object holds one native program at a time and only ever
\* tests its name against 0, so one name stands for them all.
ProgramNames == {0, 1}

Locations == -1..MaxLocation

\* GL_INFO_LOG_LENGTH: the code only asks whether it is above 1
LogLengths == {1, 2}

\* what the driver can answer a location query for name; the answer is drawn
\* only where the query is made
Answers(name) == IF name = "" \/ ~Linked THEN {-1} ELSE Locations

CallAttachShader ==
  \E shader \in Shaders \cup {VertexShader, FragmentShader} :
    \E created \in IF Handle # 0 \/ shader.handle = 0 \/ shader.type = "Unknown"
                   THEN {0} ELSE ProgramNames :
      Commit(AttachShader(Cur, shader, created), "AttachShader", shader)

CallDetachShader ==
  \E shader \in Shaders \cup {VertexShader, FragmentShader} :
    Commit(DetachShader(Cur, shader), "DetachShader", shader)

CallLink ==
  \E status \in {0, 1} :
    \E length \in IF status = 1 THEN {0} ELSE LogLengths :
      Commit(Link(Cur, status, length), "Link", "none")

CallBind ==
  \E status \in {0, 1} :
    \E length \in IF status = 1 THEN {0} ELSE LogLengths :
      Commit(Bind(Cur, status, length), "Bind", "none")

CallRelease ==
  Commit(Return(Release(Cur), "void"), "Release", "none")

\* the driver's answers are drawn only as far as the call comes to ask
CallCompileShader ==
  \E vout \in CompileOutcomes("Vertex") :
    \E fout \in IF vout <= 0 THEN {0} ELSE CompileOutcomes("Fragment") :
      \E created \in IF fout <= 0 \/ Handle # 0 THEN {0} ELSE ProgramNames :
        \E status \in IF fout <= 0 \/ (Handle = 0 /\ created = 0) THEN {0} ELSE {0, 1} :
          \E length \in IF fout <= 0 \/ (Handle = 0 /\ created = 0) \/ status = 1
                         THEN {0} ELSE LogLengths :
            Commit(CompileShader(Cur, vout, fout, created, status, length),
                   "CompileShader", "none")

CallReleaseGraphicsResources ==
  Commit(ReleaseGraphicsResources(Cur), "ReleaseGraphicsResources", "none")

\* vtkSetMacro(Compiled, bool)
CallSetCompiled ==
  \E b \in BOOLEAN :
    Commit(Return([Cur EXCEPT !.Compiled = b], "void"), "SetCompiled", b)

CallFindAttributeArray ==
  \E name \in Names :
    \E location \in Answers(name) :
      Commit(FindAttributeArray(Cur, name, location), "FindAttributeArray", name)

CallFindUniform ==
  \E name \in Names :
    \E location \in Answers(name) :
      Commit(FindUniform(Cur, name, location), "FindUniform", name)

CallEnableAttributeArray ==
  \E name \in Names :
    \E location \in Answers(name) :
      Commit(EnableAttributeArray(Cur, name, location), "EnableAttributeArray", name)

CallDisableAttributeArray ==
  \E name \in Names :
    \E location \in Answers(name) :
      Commit(DisableAttributeArray(Cur, name, location), "DisableAttributeArray", name)

CallUseAttributeArray ==
  \E name \in Names :
    \E location \in Answers(name) :
      Commit(UseAttributeArray(Cur, name, location), "UseAttributeArray", name)

CallSetAttributeArray ==
  \E name \in Names, empty \in BOOLEAN :
    \E type \in IF empty THEN {-1} ELSE TypeIDs :
      \E location \in IF type = -1 THEN {-1} ELSE Answers(name) :
        Commit(SetAttributeArray(Cur, name, empty, type, location), "SetAttributeArray",
               [name |-> name, empty |-> empty])

CallSetUniform ==
  \E setter \in UniformSetters, name \in Names :
    \E location \in Answers(name) :
      Commit(SetUniform(Cur, setter, name, location), setter, name)

(***************************************************************************)
(* The second program: the same class on the same context.  Its calls run  *)
(* the methods above on its own fields and on the context the two share.   *)
(* It is driven through the calls that bind it: a CompileShader in which   *)
(* every step succeeds, Bind, Release and ReleaseGraphicsResources.        *)
(***************************************************************************)
\* the cache's record, as the other program sees it
Swap(p) == IF p = "this" THEN "other" ELSE IF p = "other" THEN "this" ELSE p

\* the other program and the context as a call finds them
OtherCur ==
  [other EXCEPT !.glCurrentProgram = glCurrentProgram,
                !.LastShaderBound = Swap(LastShaderBound)]

\* a call of the other program's method name came to r
OtherCommit(r, name) ==
  /\ other' = [r EXCEPT !.glCurrentProgram = 0, !.LastShaderBound = "NULL",
                        !.ret = "none", !.calls = <<>>, !.wrote = FALSE]
  /\ glCurrentProgram' = r.glCurrentProgram
  /\ LastShaderBound' = Swap(r.LastShaderBound)
  /\ op' = "Other"
  /\ arg' = name
  /\ ret' = "none"
  /\ calls' = <<>>
  /\ wrote' = FALSE
  /\ rt' = "off"
  /\ reuse' = "idle"
  /\ UNCHANGED <<Handle, VertexShaderHandle, FragmentShaderHandle, Linked, Bound,
                 Compiled, Error, Attributes, VertexShader, FragmentShader,
                 glAttached>>

\* the names glCreateProgram gives the other program: not the first one's
OtherProgramNames == {2}

OtherCompileShader ==
  \E vout \in VertexHandles, fout \in FragmentHandles, created \in OtherProgramNames :
    OtherCommit(CompileShader(OtherCur, vout, fout, created, 1, 0), "CompileShader")

OtherBind ==
  OtherCommit(Bind(OtherCur, 1, 0), "Bind")

OtherRelease ==
  OtherCommit(Release(OtherCur), "Release")

OtherReleaseGraphicsResources ==
  OtherCommit(ReleaseGraphicsResources(OtherCur), "ReleaseGraphicsResources")

\* vtkOpenGLShaderCache: the cache of the window records the program it bound
\* last: this one, another one, or none
LastShaderBounds == {"this", "other", "NULL"}

ShaderCacheBinds ==
  \E p \in LastShaderBounds \ {LastShaderBound} :
    Commit(Return([Cur EXCEPT !.LastShaderBound = p], "void"), "ShaderCache", p)

(***************************************************************************)
(* Spec: the lifecycle methods.  None of them reads Error, the one field   *)
(* the lookups and uploads write, so the lifecycle is settled without      *)
(* them.                                                                   *)
(* SpecUpload: the lookups and uploads, on a program that is built with   *)
(* CompileShader, bound with Bind and torn down with                       *)
(* ReleaseGraphicsResources.  The lookups and uploads read Handle and      *)
(* Linked only, and these calls bring about every combination of the two   *)
(* that the lifecycle allows: no program, a program that failed to link,   *)
(* a linked program.                                                       *)
(***************************************************************************)
Next ==
  \/ CallAttachShader
  \/ CallDetachShader
  \/ CallLink
  \/ CallBind
  \/ CallRelease
  \/ CallCompileShader
  \/ CallReleaseGraphicsResources
  \/ CallSetCompiled

Spec == Init /\ [][Next]_vars

NextUpload ==
  \/ CallCompileShader
  \/ CallBind
  \/ CallReleaseGraphicsResources
  \/ CallFindAttributeArray
  \/ CallFindUniform
  \/ CallEnableAttributeArray
  \/ CallDisableAttributeArray
  \/ CallUseAttributeArray
  \/ CallSetAttributeArray
  \/ CallSetUniform

SpecUpload == Init /\ [][NextUpload]_vars

(***************************************************************************)
(* SpecCache: the program under the shader cache of its window, which      *)
(* builds it with CompileShader, binds and releases it, records the        *)
(* program it bound last, and tears it down with                           *)
(* ReleaseGraphicsResources.  ReleaseGraphicsResources is the only method  *)
(* of the class that reads or writes the cache's record.                   *)
(***************************************************************************)
NextCache ==
  \/ CallCompileShader
  \/ CallBind
  \/ CallRelease
  \/ CallReleaseGraphicsResources
  \/ CallSetCompiled
  \/ ShaderCacheBinds

SpecCache == Init /\ [][NextCache]_vars

(***************************************************************************)
(* SpecLookup: the whole lifecycle, and the name lookups at any point of   *)
(* it.                                                                     *)
(***************************************************************************)
NextLookup ==
  \/ Next
  \/ CallFindAttributeArray
  \/ CallFindUniform

SpecLookup == Init /\ [][NextLookup]_vars

(***************************************************************************)
(* SpecContext: two programs on one context, each built, bound, released   *)
(* and torn down, in any interleaving.                                     *)
(***************************************************************************)
NextContext ==
  \/ CallCompileShader
  \/ CallBind
  \/ CallRelease
  \/ CallReleaseGraphicsResources
  \/ OtherCompileShader
  \/ OtherBind
  \/ OtherRelease
  \/ OtherReleaseGraphicsResources

SpecContext == Init /\ [][NextContext]_vars

(***************************************************************************)
(* The claims.                                                             *)
(***************************************************************************)
IssuedIn(cs, f) == \E i \in DOMAIN cs : cs[i].f = f

ObjectState ==
  <<Handle, VertexShaderHandle, FragmentShaderHandle, Linked, Bound, Compiled,
    Error, Attributes, VertexShader, FragmentShader, glAttached, LastShaderBound>>

\* C1: from a new program, once AttachShader(vertex), AttachShader(fragment)
\* and Link() have succeeded, Bind() succeeds and sets Bound; Release() then
\* clears Bound; the second Bind() succeeds, sets Bound and issues no
\* glLinkProgram.
C1_RoundTrip ==
  /\ rt = "linked" => Linked
  /\ rt = "bound" => ret = TRUE /\ Bound
  /\ rt = "released" => ~Bound /\ Linked
  /\ rt = "rebound" => ret = TRUE /\ Bound /\ ~IssuedIn(calls, "glLinkProgram")

C1_Witness ==
  rt = "rebound" /\ ret = TRUE /\ Bound /\ calls = <<Call("glUseProgram", Handle, 0)>>

\* C2 (as amended): Linked becomes true only in a call whose native link
\* reported success; every AttachShader or DetachShader that succeeds, and
\* every ReleaseGraphicsResources that deletes the program, leaves Linked
\* false.
C2_LinkedOnlyAfterLink ==
  [][/\ (~Linked /\ Linked') =>
          \E i \in DOMAIN calls' : calls'[i] = Call("glGetProgramiv", Handle', 1)
     /\ (op' \in {"AttachShader", "DetachShader"} /\ ret' = TRUE) => ~Linked'
     /\ (op' = "ReleaseGraphicsResources" /\ IssuedIn(calls', "glDeleteProgram"))
          => ~Linked']_vars

\* C2 as stated: every AttachShader or DetachShader, failing ones too,
\* leaves Linked false.
C2_Original ==
  [][/\ (~Linked /\ Linked') =>
          \E i \in DOMAIN calls' : calls'[i] = Call("glGetProgramiv", Handle', 1)
     /\ op' \in {"AttachShader", "DetachShader"} => ~Linked'
     /\ (op' = "ReleaseGraphicsResources" /\ IssuedIn(calls', "glDeleteProgram"))
          => ~Linked']_vars

\* a program that was bound, hence linked, and is unlinked after a detach
C2_Witness ==
  op = "DetachShader" /\ ret = TRUE /\ Bound /\ ~Linked /\ Handle # 0

\* C3 (as amended): on a program without a native handle (never attached, or
\* torn down by ReleaseGraphicsResources) Link() and Bind() fail with the
\* not-initialized error, make no native call and leave Linked and Bound
\* false.
C3_NoHandleNoLink ==
  (op \in {"Link", "Bind"} /\ Handle = 0) =>
    /\ ret = FALSE
    /\ ~Linked
    /\ ~Bound
    /\ calls = <<>>
    /\ Error = "Program has not been initialized, and/or does not have shaders."

\* C3 as stated: with no shader attached, Link() and Bind() fail.
C3_Original ==
  (/\ op \in {"Link", "Bind"}
   /\ VertexShaderHandle = 0
   /\ FragmentShaderHandle = 0
   /\ glAttached = {}) => (ret = FALSE /\ ~Linked)

\* Bind() on a program that was torn down: a shader is still recorded
C3_Witness ==
  op = "Bind" /\ ret = FALSE /\ Handle = 0 /\ VertexShaderHandle # 0

\* C4: AttachShader of a shader whose handle is 0 fails with the
\* not-initialized error, creates no program, and leaves Handle, the recorded
\* shader handles and Linked as they were.
C4_AttachUninitialized ==
  [][(op' = "AttachShader" /\ arg'.handle = 0) =>
       /\ ret' = FALSE
       /\ Error' = "Shader object was not initialized, cannot attach it."
       /\ calls' = <<>>
       /\ Handle' = Handle
       /\ VertexShaderHandle' = VertexShaderHandle
       /\ FragmentShaderHandle' = FragmentShaderHandle
       /\ Linked' = Linked]_vars

C4_Witness ==
  op = "AttachShader" /\ arg.handle = 0 /\ ret = FALSE /\ Handle = 0 /\ calls = <<>>

\* C5: the native program never has two vertex or two fragment shaders
\* attached; an AttachShader that succeeds records the shader's handle for its
\* type, leaves it the one shader of its type attached and Linked false, and
\* when a handle was recorded for the type it detaches that one before it
\* attaches the new one.
C5_OnePerType ==
  [][/\ Cardinality(glAttached' \cap VertexHandles) <= 1
     /\ Cardinality(glAttached' \cap FragmentHandles) <= 1
     /\ (op' = "AttachShader" /\ ret' = TRUE) =>
          LET vertex == arg'.type = "Vertex"
              prev == IF vertex THEN VertexShaderHandle ELSE FragmentShaderHandle
              now == IF vertex THEN VertexShaderHandle' ELSE FragmentShaderHandle'
              pool == IF vertex THEN VertexHandles ELSE FragmentHandles
          IN  /\ now = arg'.handle
              /\ ~Linked'
              /\ glAttached' \cap pool = {arg'.handle}
              /\ prev # 0 =>
                   \E i, j \in DOMAIN calls' :
                     /\ i < j
                     /\ calls'[i] = Call("glDetachShader", Handle', prev)
                     /\ calls'[j] = Call("glAttachShader", Handle', arg'.handle)]_vars

\* a second vertex shader has taken the place of the first
C5_Witness ==
  /\ op = "AttachShader"
  /\ ret = TRUE
  /\ arg.type = "Vertex"
  /\ \E i \in DOMAIN calls :
       /\ calls[i].f = "glDetachShader"
       /\ calls[i].b # arg.handle
       /\ calls[i].b \notin glAttached
  /\ glAttached \cap VertexHandles = {arg.handle}

\* C6: ReleaseGraphicsResources leaves Handle = 0 and Linked, Bound and
\* Compiled false; called again directly after, it changes nothing of the
\* object or the context, sets no error and issues no glDeleteProgram.
C6_ReleaseIdempotent ==
  [][/\ op' = "ReleaseGraphicsResources" =>
          Handle' = 0 /\ ~Linked' /\ ~Bound' /\ ~Compiled'
     /\ (op = "ReleaseGraphicsResources" /\ op' = "ReleaseGraphicsResources") =>
          /\ UNCHANGED ObjectState
          /\ ~IssuedIn(calls', "glDeleteProgram")
          /\ ~wrote']_vars

\* the call found a program that already was torn down
C6_Witness ==
  /\ op = "ReleaseGraphicsResources"
  /\ calls = <<Call("glUseProgram", 0, 0)>>
  /\ VertexShaderHandle # 0
  /\ Handle = 0

UnchangedByFailedCompile ==
  UNCHANGED <<Handle, VertexShaderHandle, FragmentShaderHandle, Linked, Compiled>>

\* C7: when the vertex shader's compile fails CompileShader returns 0 and has
\* called nothing else; when the fragment shader's compile fails it returns 0
\* and has called neither AttachShader nor Link; Handle, the recorded shader
\* handles, Linked and Compiled are as before.
C7_CompileFailureAborts ==
  [][op' = "CompileShader" =>
       /\ calls'[1].f = "VertexShader.Compile"
       /\ calls'[1].a <= 0 =>
            ret' = 0 /\ Len(calls') = 1 /\ UnchangedByFailedCompile
       /\ (calls'[1].a > 0 /\ calls'[2].a <= 0) =>
            /\ calls'[2].f = "FragmentShader.Compile"
            /\ ret' = 0
            /\ Len(calls') = 2
            /\ UnchangedByFailedCompile]_vars

\* the vertex shader of a compiled, linked program fails to compile
C7_Witness ==
  /\ op = "CompileShader"
  /\ ret = 0
  /\ Len(calls) = 1
  /\ calls[1].a <= 0
  /\ Linked
  /\ Compiled

IsStep(c) ==
  c.f \in {"VertexShader.Compile", "FragmentShader.Compile", "AttachShader", "Link"}

StepOrder ==
  <<"VertexShader.Compile", "FragmentShader.Compile", "AttachShader", "AttachShader", "Link">>

StepOk(c) ==
  IF c.f \in {"VertexShader.Compile", "FragmentShader.Compile"} THEN c.a > 0 ELSE c.b = 1

\* C8: the steps of CompileShader are a prefix of compile vertex, compile
\* fragment, AttachShader(vertex), AttachShader(fragment), Link; only the last
\* step taken can have failed; it returns 1 exactly when all five were taken
\* and succeeded, and then Compiled is true; when it returns 0 Compiled is as
\* before.
C8_CompileOrder ==
  [][op' = "CompileShader" =>
       \A st \in {SelectSeq(calls', IsStep)} : \A n \in {Len(st)} :
           /\ n \in 1..5
           /\ \A i \in 1..n : st[i].f = StepOrder[i]
           /\ n >= 3 => st[3].a = VertexShader'.handle
           /\ n >= 4 => st[4].a = FragmentShader'.handle
           /\ \A i \in 1..(n - 1) : StepOk(st[i])
           /\ ret' = 1 <=> (n = 5 /\ StepOk(st[5]))
           /\ ret' = 0 <=> ~StepOk(st[n])
           /\ ret' = 1 => Compiled'
           /\ ret' = 0 => Compiled' = Compiled]_vars

C8_Witness ==
  /\ op = "CompileShader"
  /\ ret = 1
  /\ Compiled
  /\ Linked
  /\ Len(SelectSeq(calls, IsStep)) = 5

\* C9 (as amended): on a program that is not linked FindAttributeArray and
\* FindUniform return -1 for every name and make no native call; they leave
\* the error field as it was.
C9_LookupUnlinked ==
  (op \in {"FindAttributeArray", "FindUniform"} /\ ~Linked) =>
    (ret = -1 /\ calls = <<>> /\ ~wrote)

\* C9 as stated: they return -1, make no native call and set the error field.
C9_Original ==
  (op \in {"FindAttributeArray", "FindUniform"} /\ ~Linked) =>
    (ret = -1 /\ calls = <<>> /\ wrote)

C9_Witness ==
  op = "FindUniform" /\ ~Linked /\ Handle # 0 /\ arg # "" /\ ret = -1

UploadOps ==
  UniformSetters \cup
    {"EnableAttributeArray", "DisableAttributeArray", "UseAttributeArray",
     "SetAttributeArray"}

LocationQueries == {"glGetAttribLocation", "glGetUniformLocation"}

\* the name the last upload operation was called with
UploadName == IF op = "SetAttributeArray" THEN arg.name ELSE arg

\* C10: no upload is issued with an invalid location.  An upload operation
\* makes no location query for an empty name or on an unlinked program; when
\* no query answered a location it returns false, has set the error field and
\* has uploaded nothing; when a query answered a location it returns true and
\* has issued exactly one upload, after the query, with that location.
C10_UploadsNeedLocation ==
  op \in UploadOps =>
    LET qs == {i \in DOMAIN calls : calls[i].f \in LocationQueries}
        ups == {i \in DOMAIN calls : calls[i].f \notin LocationQueries}
        found == \E i \in qs : calls[i].b >= 0
    IN  /\ \A i \in ups : calls[i].a >= 0
        /\ Cardinality(qs) <= 1
        /\ (UploadName = "" \/ ~Linked) => qs = {}
        /\ ~found => (ret = FALSE /\ wrote /\ Error # "" /\ ups = {})
        /\ found =>
             /\ ret = TRUE
             /\ Cardinality(ups) = 1
             /\ \A i \in ups, j \in qs : j < i /\ calls[i].a = calls[j].b

C10_Witness ==
  /\ op = "SetUniformMatrix4x4"
  /\ ret = TRUE
  /\ calls = <<Call("glGetUniformLocation", Handle, 0), Call("glUniformMatrix4fv", 0, 0)>>

\* C11: SetAttributeArray with an empty array returns false with the
\* empty-array error and issues no native call, neither a location query nor
\* an upload, whatever the state of the program.
C11_EmptyArrayRefused ==
  (op = "SetAttributeArray" /\ arg.empty) =>
    /\ ret = FALSE
    /\ wrote
    /\ Error = "Refusing to upload empty array for attribute."
    /\ calls = <<>>

\* an empty array for a name of a linked and bound program
C11_Witness ==
  /\ op = "SetAttributeArray"
  /\ arg.empty
  /\ arg.name # ""
  /\ Linked
  /\ Bound
  /\ ret = FALSE

\* C12: DetachShader of a Vertex or Fragment shader with a native handle:
\* when the handle is not the one recorded for the type it fails with the
\* not-attached error, issues no native detach and leaves the recorded
\* handles and Linked as they were; when it is, it issues the native detach,
\* sets the recorded handle of the type to 0 and Linked to false.
C12_DetachRecordedOnly ==
  [][(op' = "DetachShader" /\ arg'.handle # 0 /\ arg'.type \in {"Vertex", "Fragment"}) =>
       LET vertex == arg'.type = "Vertex"
           recorded == IF vertex THEN VertexShaderHandle ELSE FragmentShaderHandle
       IN  IF recorded # arg'.handle
           THEN /\ ret' = FALSE
                /\ Error' = "The supplied shader was not attached to this program."
                /\ ~IssuedIn(calls', "glDetachShader")
                /\ VertexShaderHandle' = VertexShaderHandle
                /\ FragmentShaderHandle' = FragmentShaderHandle
                /\ Linked' = Linked
           ELSE /\ ret' = TRUE
                /\ calls' = <<Call("glDetachShader", Handle, arg'.handle)>>
                /\ VertexShaderHandle' = IF vertex THEN 0 ELSE VertexShaderHandle
                /\ FragmentShaderHandle' = IF vertex THEN FragmentShaderHandle ELSE 0
                /\ ~Linked']_vars

\* a vertex shader other than the recorded one, on a linked program
C12_Witness ==
  /\ op = "DetachShader"
  /\ arg.type = "Vertex"
  /\ arg.handle # 0
  /\ ret = FALSE
  /\ VertexShaderHandle # 0
  /\ VertexShaderHandle # arg.handle
  /\ Linked
  /\ calls = <<>>


\* the messages AttachShader gives for a shader it cannot use
InvalidShaderErrors ==
  {"Shader object was not initialized, cannot attach it.",
   "Shader object is of type Unknown and cannot be used.",
   "Unknown shader type encountered - this should not happen."}

\* C13: AttachShader succeeds for every shader with a native handle and a
\* type other than Unknown, when glCreateProgram does not fail; it fails
\* with an invalid-shader error only when the handle is 0 or the type is
\* Unknown.
C13_AttachKnownTypes ==
  op = "AttachShader" =>
    /\ (/\ arg.handle # 0
        /\ arg.type # "Unknown"
        /\ Call("glCreateProgram", 0, 0) \notin {calls[i] : i \in DOMAIN calls}) => ret = TRUE
    /\ (ret = FALSE /\ Error \in InvalidShaderErrors) =>
         (arg.handle = 0 \/ arg.type = "Unknown")


\* C14: Bound becomes true only in a Bind that succeeds and stays true until
\* the next Release.  Bind on an unlinked program attempts the link first
\* and, when that fails, returns false without glUseProgram and without
\* assigning Bound; a Bind that succeeds sets Bound; Release, called directly
\* or by ReleaseGraphicsResources, sets Bound false in every state; no other
\* operation changes Bound.
C14_BoundBetweenBindAndRelease ==
  [][/\ (op' = "Bind" /\ Linked) => ret' = TRUE
     /\ (op' = "Bind" /\ ~Linked /\ Handle # 0) =>
          /\ calls'[1] = Call("glLinkProgram", Handle, 0)
          /\ ret' = Linked'
     /\ (op' = "Bind" /\ ret' = FALSE) =>
          /\ ~IssuedIn(calls', "glUseProgram")
          /\ Bound' = Bound
          /\ ~Linked'
     /\ (op' = "Bind" /\ ret' = TRUE) =>
          /\ calls'[Len(calls')] = Call("glUseProgram", Handle', 0)
          /\ Bound'
     /\ op' \in {"Release", "ReleaseGraphicsResources"} =>
          /\ calls'[1] = Call("glUseProgram", 0, 0)
          /\ ~Bound'
     /\ op' \notin {"Bind", "Release", "ReleaseGraphicsResources"} => Bound' = Bound
     /\ (~Bound /\ Bound') => (op' = "Bind" /\ ret' = TRUE)]_vars

\* a bound program whose link went stale: Bind tries the link, it fails
C14_Witness ==
  /\ op = "Bind"
  /\ ret = FALSE
  /\ Handle # 0
  /\ IssuedIn(calls, "glLinkProgram")
  /\ Bound
  /\ ~Linked


\* C15: after ReleaseGraphicsResources the shader cache's last bound program
\* is not this program; when it was another program, or none, before the
\* call it is unchanged and the cache is not called; when it was this
\* program it is cleared before glDeleteProgram.
C15_LastShaderBoundCleared ==
  [][op' = "ReleaseGraphicsResources" =>
       /\ LastShaderBound' # "this"
       /\ LastShaderBound # "this" =>
            /\ LastShaderBound' = LastShaderBound
            /\ ~IssuedIn(calls', "ClearLastShaderBound")
       /\ LastShaderBound = "this" =>
            /\ LastShaderBound' = "NULL"
            /\ IssuedIn(calls', "ClearLastShaderBound")
            /\ \A i, j \in DOMAIN calls' :
                 (calls'[i].f = "ClearLastShaderBound" /\ calls'[j].f = "glDeleteProgram")
                   => i < j]_vars

\* the program the cache bound last is torn down: cleared, then deleted
C15_Witness ==
  /\ op = "ReleaseGraphicsResources"
  /\ LastShaderBound = "NULL"
  /\ \E i, j \in DOMAIN calls :
       /\ i < j
       /\ calls[i].f = "ClearLastShaderBound"
       /\ calls[j].f = "glDeleteProgram"


\* the operations that report failure through their return value
FailingOps == {"AttachShader", "DetachShader", "Link", "Bind"} \cup UploadOps

\* the last call returned failure
Failed ==
  \/ op \in FailingOps /\ ret = FALSE
  \/ op = "CompileShader" /\ ret = 0

\* C16: whenever AttachShader, DetachShader, Link, Bind, CompileShader or an
\* attribute or uniform setter returns failure, it has assigned the error
\* string during that call.
C16_FailureSetsError ==
  Failed => wrote


\* C17: whenever AttachShader, DetachShader, Link or Bind returns failure,
\* Handle, the recorded shader handles, Linked, Bound and Compiled are as
\* before the call, and the call has created no native program.
C17_FailureKeepsState ==
  [][(op' \in {"AttachShader", "DetachShader", "Link", "Bind"} /\ ret' = FALSE) =>
       /\ UNCHANGED <<Handle, VertexShaderHandle, FragmentShaderHandle,
                      Linked, Bound, Compiled>>
       /\ \A i \in DOMAIN calls' :
            calls'[i].f = "glCreateProgram" => calls'[i].a = 0]_vars


\* the last call returned success
Succeeded ==
  \/ op \in FailingOps /\ ret = TRUE
  \/ op = "CompileShader" /\ ret = 1

\* C18: after AttachShader, DetachShader, Link, Bind, CompileShader or a
\* setter has returned success the error string is empty.
C18_SuccessClearsError ==
  Succeeded => Error = ""


\* C19: after a CompileShader that succeeded and ReleaseGraphicsResources, a
\* CompileShader in which both compiles, the program allocation and the
\* native link succeed returns 1 with a newly created program in Handle,
\* Linked and Compiled; the Bind that follows succeeds without a relink.
C19_ReuseAfterRelease ==
  /\ reuse = "released" => (Handle = 0 /\ ~Linked /\ ~Compiled /\ ~Bound)
  /\ reuse = "recompiled" =>
       /\ ret = 1
       /\ Handle # 0
       /\ Call("glCreateProgram", Handle, 0) \in {calls[i] : i \in DOMAIN calls}
       /\ Call("glGetProgramiv", Handle, 1) \in {calls[i] : i \in DOMAIN calls}
       /\ VertexShaderHandle = VertexShader.handle
       /\ FragmentShaderHandle = FragmentShader.handle
       /\ Linked
       /\ Compiled
  /\ reuse = "rebound" =>
       /\ ret = TRUE
       /\ Bound
       /\ calls = <<Call("glUseProgram", Handle, 0)>>

C19_Witness ==
  reuse = "rebound" /\ ret = TRUE /\ Bound /\ Linked /\ Compiled /\ Handle # 0


\* C20: Link() on a linked program returns true, makes no native call and
\* changes nothing; a Link() whose native link succeeds sets Linked and
\* leaves the attribute cache empty; a Link() whose native link fails returns
\* false with Linked still false and the cache as it was.
C20_LinkIdempotent ==
  [][op' = "Link" =>
       LET issued == {calls'[i] : i \in DOMAIN calls'}
       IN  /\ Linked =>
                /\ ret' = TRUE
                /\ calls' = <<>>
                /\ ~wrote'
                /\ UNCHANGED ObjectState
           /\ (~Linked /\ Handle # 0) =>
                /\ calls'[1] = Call("glLinkProgram", Handle, 0)
                /\ \E status \in {0, 1} : calls'[2] = Call("glGetProgramiv", Handle, status)
           /\ Call("glGetProgramiv", Handle, 1) \in issued =>
                /\ ret' = TRUE
                /\ Linked'
                /\ Attributes' = {}
           /\ Call("glGetProgramiv", Handle, 0) \in issued =>
                /\ ret' = FALSE
                /\ ~Linked'
                /\ Attributes' = Attributes]_vars

\* Link() on a program that is linked and bound
C20_Witness ==
  op = "Link" /\ ret = TRUE /\ calls = <<>> /\ Linked /\ Bound


\* C21: DetachShader of a usable shader on a program without a native handle
\* returns false with the not-initialized error and issues no native detach,
\* also when a shader handle is still recorded.
C21_DetachNeedsProgram ==
  (op = "DetachShader" /\ Handle = 0 /\ arg.handle # 0 /\ arg.type # "Unknown") =>
    /\ ret = FALSE
    /\ Error = "This shader prorgram has not been initialized yet."
    /\ ~IssuedIn(calls, "glDetachShader")


\* C23: whenever the program has no native handle no shader is recorded as
\* attached: after ReleaseGraphicsResources the recorded vertex and fragment
\* handles are 0.
C23_NoRecordWithoutProgram ==
  (op = "ReleaseGraphicsResources" /\ Handle = 0) =>
    (VertexShaderHandle = 0 /\ FragmentShaderHandle = 0)


\* C24: with programs sharing a context, under any interleaving of Bind,
\* Release and ReleaseGraphicsResources, a program's bound flag is set only
\* while the context's current program is that program's handle, so at most
\* one program is bound at a time.
C24_BoundIsCurrent ==
  /\ Bound => glCurrentProgram = Handle
  /\ other.Bound => glCurrentProgram = other.Handle
  /\ ~(Bound /\ other.Bound)


\* C22: a linked program has a native handle and a bound program has a
\* native handle; so Bind never issues glUseProgram with handle 0 and a name
\* lookup never queries handle 0.
C22_LiveHandle ==
  /\ Linked => Handle # 0
  /\ Bound => Handle # 0
  /\ op = "Bind" =>
       \A i \in DOMAIN calls : calls[i].f = "glUseProgram" => calls[i].a # 0
  /\ \A i \in DOMAIN calls : calls[i].f \in LocationQueries => calls[i].a # 0

\* ReleaseGraphicsResources has deleted a program that CompileShader had
\* just linked: the handle is zero and the program is neither linked nor bound
C22_Witness ==
  /\ op = "ReleaseGraphicsResources"
  /\ reuse = "released"
  /\ IssuedIn(calls, "glDeleteProgram")
  /\ Handle = 0
  /\ ~Linked
  /\ ~Bound

====
